---- MODULE Spec2Model ----
(***************************************************************************)
(* Fidelity evaluation of notebooks/XAI_initial.ipynb:                     *)
(*   fidelity_metric(model, instance, explanation, num_features)           *)
(*   compute_average_fidelity(model, X, explainer, num_samples,            *)
(*                            num_features)                                *)
(* Arrays are objects of a store (a sequence of vectors addressed by       *)
(* position), so that a copy and an alias are different things.  Python    *)
(* indices are 0-based; the store and the vectors are 1-based sequences,   *)
(* so a Python index ix names element ix + 1.  Real numbers are integers;  *)
(* a mean is kept as the fraction sum / count.                             *)
(***************************************************************************)
EXTENDS Integers, Sequences, FiniteSets, TLC

VARIABLES X, instance, explanation, pc, score, avg

vars == <<X, instance, explanation, pc, score, avg>>

---------------------------------------------------------------------------
(* Bounds of the model *)

\* An importance mapping of the general input set has at most MaxEntries entries.
MaxEntries == 3

\* Importance scores of the general input set range over -MaxScore..MaxScore.
MaxScore == 1

\* The caller's instance sequence X has at most MaxRows rows.
MaxRows == 3

---------------------------------------------------------------------------
(* The environment: feature schema, instances, models, explainers *)

\* data.feature_names, the global the feature positions are resolved in.
feature_names == <<"f0", "f1", "f2">>

\* An identifier that is not in the schema.
Nonexistent == "nonexistent"

FeatureIds == {feature_names[i] : i \in 1..Len(feature_names)} \cup {Nonexistent}

\* Instances: numeric vectors over the schema, those fidelity_metric is called on.
Instances == {<<2, 3, 5>>, <<1, 1, 1>>}

\* The instances the rows of X are drawn from.
Rows == Instances \cup {<<3, 1, 2>>}

\* The model collaborator: linear stand-ins, named by their weight vector.
Models == {<<1, 2, 0>>, <<1, 1, 1>>}

RECURSIVE Dot(_, _)
Dot(w, x) ==
    IF w = <<>> \/ x = <<>> THEN 0
    ELSE Head(w) * Head(x) + Dot(Tail(w), Tail(x))

\* model.predict(instance.reshape(1, -1))[0][0]
Predict(model, x) == Dot(model, x)

\* The importance mapping w * x elementwise, one entry per feature, in schema order.
LinearImportance(w, x) ==
    [i \in 1..Len(feature_names) |-> <<feature_names[i], w[i] * x[i]>>]

Abs(v) == IF v < 0 THEN 0 - v ELSE v

Min(a, b) == IF a < b THEN a ELSE b

Max(a, b) == IF a > b THEN a ELSE b

\* A dict is the sequence of its (key, value) items in insertion order, keys distinct.
DistinctKeys(items) ==
    \A i, j \in 1..Len(items) : i # j => items[i][1] # items[j][1]

ItemsOfLen(n) ==
    {m \in [1..n -> FeatureIds \X ((0 - MaxScore)..MaxScore)] : DistinctKeys(m)}

\* The importance mappings score() is called with.
Explanations ==
    UNION {ItemsOfLen(n) : n \in 0..MaxEntries}
        \cup {LinearImportance(w, x) : w \in Models, x \in Instances}

\* num_features values: negative, zero, up to more than any mapping holds.
KValues == (0 - 2)..(MaxEntries + 1)

---------------------------------------------------------------------------
(* Python and numpy primitives, as the code uses them *)

\* Faulty variant of copy: no copy is made, the result is the object itself
\* (instance_perturbed = instance).
copy_alias(store, ref) == [store |-> store, ref |-> ref]

\* ndarray.copy(): a new object of the store holding the same values.
copy(store, ref) ==
    [store |-> Append(store, store[ref]), ref |-> Len(store) + 1]

\* Faulty variant of zeros_like: the baseline is np.ones_like(instance).
ones_like(arr) == [i \in 1..Len(arr) |-> 1]

\* np.zeros_like(instance): the baseline vector.
zeros_like(arr) == [i \in 1..Len(arr) |-> 0]

\* Faulty variant of InsertByAbs: the item goes before the first item of smaller
\* or equal key, which reverses the order of equal keys (an ascending sort read
\* backwards).
InsertByAbsUnstable(done, item) ==
    LET notLarger == {p \in 1..Len(done) : Abs(done[p][2]) <= Abs(item[2])}
        at == IF notLarger = {} THEN Len(done) + 1
              ELSE CHOOSE p \in notLarger : \A q \in notLarger : p <= q
    IN  SubSeq(done, 1, at - 1) \o <<item>> \o SubSeq(done, at, Len(done))

\* One step of sorted(..., key=lambda x: abs(x[1]), reverse=True): the item goes
\* before the first item of strictly smaller key, so after every item of equal key.
InsertByAbs(done, item) ==
    LET smaller == {p \in 1..Len(done) : Abs(done[p][2]) < Abs(item[2])}
        at == IF smaller = {} THEN Len(done) + 1
              ELSE CHOOSE p \in smaller : \A q \in smaller : p <= q
    IN  SubSeq(done, 1, at - 1) \o <<item>> \o SubSeq(done, at, Len(done))

RECURSIVE sorted(_)
\* sorted(explanation.items(), key=lambda x: abs(x[1]), reverse=True): a new list,
\* descending by absolute score, equal keys in their original order.
sorted(items) ==
    IF items = <<>> THEN <<>>
    ELSE InsertByAbs(sorted(SubSeq(items, 1, Len(items) - 1)), items[Len(items)])

\* Faulty variant of slice: seq[:min(k, len(seq) - 1)], a clamp that is one short
\* when k exceeds the length.
slice_clamp_short(seq, k) ==
    IF k > Len(seq) THEN SubSeq(seq, 1, Max(Len(seq) - 1, 0))
    ELSE IF k >= 0 THEN SubSeq(seq, 1, k)
    ELSE SubSeq(seq, 1, Max(Len(seq) + k, 0))

\* Faulty variant of slice: seq[:k or None], where k = 0 takes everything.
slice_zero_as_none(seq, k) ==
    IF k = 0 THEN seq
    ELSE IF k > 0 THEN SubSeq(seq, 1, Min(k, Len(seq)))
    ELSE SubSeq(seq, 1, Max(Len(seq) + k, 0))

\* seq[:k], Python's slice: a negative k counts from the end.
slice(seq, k) ==
    IF k >= 0 THEN SubSeq(seq, 1, Min(k, Len(seq)))
    ELSE SubSeq(seq, 1, Max(Len(seq) + k, 0))

\* [feat for feat, _ in ...]
Keys(items) == [i \in 1..Len(items) |-> items[i][1]]

\* Faulty variant of index: a lookup that answers -1 for a missing value instead
\* of raising, which an array then takes as its last position.
index_or_last(seq, v) ==
    LET at == {p \in 1..Len(seq) : seq[p] = v}
    IN  IF at = {} THEN [raised |-> FALSE, value |-> Len(seq) - 1]
        ELSE [raised |-> FALSE,
              value |-> (CHOOSE p \in at : \A q \in at : p <= q) - 1]

\* list(...).index(v): the 0-based position of the first occurrence; ValueError
\* when there is none.
index(seq, v) ==
    LET at == {p \in 1..Len(seq) : seq[p] = v}
    IN  IF at = {} THEN [raised |-> TRUE, value |-> 0]
        ELSE [raised |-> FALSE,
              value |-> (CHOOSE p \in at : \A q \in at : p <= q) - 1]

RECURSIVE Perturb(_, _, _, _)
\* for feature in features_to_remove:
\*     idx = list(data.feature_names).index(feature)
\*     instance_perturbed[idx] = baseline[idx]
\* written in place into object ref of the store; stops at the first ValueError.
Perturb(store, ref, features, baseline) ==
    IF features = <<>> THEN [raised |-> FALSE, store |-> store]
    ELSE LET idx == index(feature_names, Head(features))
         IN  IF idx.raised THEN [raised |-> TRUE, store |-> store]
             ELSE Perturb([store EXCEPT ![ref][idx.value + 1] = baseline[idx.value + 1]],
                          ref, Tail(features), baseline)

\* Faulty variant of Fidelity: the difference taken the other way round.
FidelitySwapped(original_pred, perturbed_pred) == perturbed_pred - original_pred

\* fidelity = original_pred - perturbed_pred
Fidelity(original_pred, perturbed_pred) == original_pred - perturbed_pred

\* fidelity_metric(model, instance, explanation, num_features), the instance being
\* object ref of the store.  The result tells how the call ended, what it passed to
\* the model and what it left in the store.
fidelity_metric(model, store, ref, expl, num_features) ==
    LET cp == copy(store, ref)
        instance_perturbed == cp.ref
        baseline == zeros_like(store[ref])
        sorted_features == sorted(expl)
        features_to_remove == Keys(slice(sorted_features, num_features))
        loop == Perturb(cp.store, instance_perturbed, features_to_remove, baseline)
        original_pred == Predict(model, loop.store[ref])
        perturbed_pred == Predict(model, loop.store[instance_perturbed])
    IN  IF loop.raised
        THEN [status |-> "ValueError",
              features_to_remove |-> features_to_remove,
              predict_calls |-> <<>>,
              fidelity |-> 0,
              store |-> loop.store]
        ELSE [status |-> "ok",
              features_to_remove |-> features_to_remove,
              predict_calls |-> <<loop.store[ref], loop.store[instance_perturbed]>>,
              fidelity |-> Fidelity(original_pred, perturbed_pred),
              store |-> loop.store]

---------------------------------------------------------------------------
(* compute_average_fidelity and its collaborators *)

\* range(n): 0, 1, ..., n - 1; empty when n <= 0.
range(n) == [j \in 1..Max(n, 0) |-> j - 1]

\* The explainer collaborator's exp.as_list(): a list of (feature, weight) pairs.
\* Two stand-ins: "linear" explains a linear model exactly (w * x, one pair per
\* feature); "fixed" gives the same pairs, given as fixedPairs, for every instance.
ExplainerFns == {"linear", "fixed"}

explain_instance(explainer, model, inst, fixedPairs) ==
    IF explainer = "linear" THEN LinearImportance(model, inst) ELSE fixedPairs

RECURSIVE dict(_)
\* dict(pairs): a later pair of a key already present replaces its value and keeps
\* the key's place; a new key goes to the end.
dict(pairs) ==
    IF pairs = <<>> THEN <<>>
    ELSE LET d == dict(SubSeq(pairs, 1, Len(pairs) - 1))
             kv == pairs[Len(pairs)]
             at == {p \in 1..Len(d) : d[p][1] = kv[1]}
         IN  IF at = {} THEN Append(d, kv)
             ELSE [p \in 1..Len(d) |-> IF p \in at THEN kv ELSE d[p]]

RECURSIVE Sum(_)
Sum(seq) == IF seq = <<>> THEN 0 ELSE Head(seq) + Sum(Tail(seq))

\* Faulty variant of mean: np.sum(fidelities), the sum not divided by the count.
mean_as_sum(seq) ==
    IF seq = <<>> THEN [nan |-> FALSE, num |-> 0, den |-> 1]
    ELSE [nan |-> FALSE, num |-> Sum(seq), den |-> 1]

\* np.mean(fidelities): the sum over the count, kept as a fraction; of an empty
\* list it is nan (numpy warns and returns, it does not raise).
mean(seq) ==
    IF seq = <<>> THEN [nan |-> TRUE, num |-> 0, den |-> 0]
    ELSE [nan |-> FALSE, num |-> Sum(seq), den |-> Len(seq)]

\* The mappings the "fixed" explainer stand-in gives (the caller's mapping).
AvgExplanations ==
    {<<<<"f0", 1>>>>,
     <<<<"f1", 2>>, <<Nonexistent, 1>>>>,
     <<<<"f2", 0 - 1>>, <<"f0", 1>>>>}

RECURSIVE SeqsUpTo(_, _)
SeqsUpTo(S, n) ==
    IF n = 0 THEN {<<>>}
    ELSE LET shorter == SeqsUpTo(S, n - 1)
         IN  shorter \cup {Append(q, e) : q \in {r \in shorter : Len(r) = n - 1}, e \in S}

\* num_samples values: zero, and up to more than X has rows.
NValues == 0..(MaxRows + 1)

---------------------------------------------------------------------------
(* State and operations *)

NoCall == [status |-> "none"]

\* The caller's objects, before any call.
Init ==
    /\ X = <<>>
    /\ instance \in Instances
    /\ explanation \in Explanations
    /\ pc = "idle"
    /\ score = NoCall
    /\ avg = NoCall

\* The caller's objects where compute_average_fidelity is called too.
InitAvg ==
    /\ X \in SeqsUpTo(Rows, MaxRows)
    /\ instance = <<2, 3, 5>>
    /\ explanation \in AvgExplanations
    /\ pc = "idle"
    /\ score = NoCall
    /\ avg = NoCall

\* A call fidelity_metric(model, instance, explanation, num_features) on the
\* caller's instance and mapping.
ScoreCall ==
    /\ pc = "idle"
    /\ \E model \in Models, num_features \in KValues :
         LET r == fidelity_metric(model, <<instance>>, 1, explanation, num_features)
         IN  /\ score' = [status |-> r.status,
                          model |-> model,
                          num_features |-> num_features,
                          instance |-> instance,
                          explanation |-> explanation,
                          features_to_remove |-> r.features_to_remove,
                          predict_calls |-> r.predict_calls,
                          fidelity |-> r.fidelity]
             /\ instance' = r.store[1]
    /\ pc' = "score_done"
    /\ UNCHANGED <<X, explanation, avg>>

\* compute_average_fidelity(model, X, explainer, num_samples, num_features) is
\* entered: fidelities = [].
AvgCall ==
    /\ pc = "idle"
    /\ \E model \in Models, explainer \in ExplainerFns,
          num_samples \in NValues, num_features \in KValues :
         avg' = [status |-> "running",
                 model |-> model,
                 explainer |-> explainer,
                 num_samples |-> num_samples,
                 num_features |-> num_features,
                 X |-> X,
                 i |-> 0,
                 explain_calls |-> <<>>,
                 score_calls |-> <<>>,
                 fidelities |-> <<>>,
                 result |-> mean(<<>>)]
    /\ pc' = "avg_loop"
    /\ UNCHANGED <<X, instance, explanation, score>>

\* One iteration of for i in range(num_samples): the rows of X are objects
\* 1..Len(X) of the store, X[i] raises IndexError past the last row, and a
\* ValueError of fidelity_metric ends the call.
AvgIter ==
    /\ pc = "avg_loop"
    /\ avg.i < Len(range(avg.num_samples))
    /\ LET i == range(avg.num_samples)[avg.i + 1]
       IN  IF i >= Len(X)
           THEN /\ avg' = [avg EXCEPT !.status = "IndexError"]
                /\ pc' = "avg_done"
                /\ X' = X
           ELSE LET inst == copy(X, i + 1)
                    exp == explain_instance(avg.explainer, avg.model,
                                            inst.store[inst.ref], explanation)
                    exp_dict == dict(exp)
                    r == fidelity_metric(avg.model, inst.store, inst.ref,
                                         exp_dict, avg.num_features)
                IN  /\ X' = SubSeq(r.store, 1, Len(X))
                    /\ IF r.status = "ok"
                       THEN /\ avg' = [avg EXCEPT
                                        !.i = avg.i + 1,
                                        !.explain_calls = Append(@, i),
                                        !.score_calls = Append(@, i),
                                        !.fidelities = Append(@, r.fidelity)]
                            /\ pc' = "avg_loop"
                       ELSE /\ avg' = [avg EXCEPT
                                        !.status = r.status,
                                        !.explain_calls = Append(@, i),
                                        !.score_calls = Append(@, i)]
                            /\ pc' = "avg_done"
    /\ UNCHANGED <<instance, explanation, score>>

\* The loop is over: return np.mean(fidelities).
AvgReturn ==
    /\ pc = "avg_loop"
    /\ avg.i >= Len(range(avg.num_samples))
    /\ avg' = [avg EXCEPT !.status = "ok", !.result = mean(avg.fidelities)]
    /\ pc' = "avg_done"
    /\ UNCHANGED <<X, instance, explanation, score>>

\* The caller takes the outcome; the next call may start.
Return ==
    /\ pc \in {"score_done", "avg_done"}
    /\ pc' = "idle"
    /\ score' = NoCall
    /\ avg' = NoCall
    /\ UNCHANGED <<X, instance, explanation>>

Next == ScoreCall \/ Return

Spec == Init /\ [][Next]_vars

NextAvg == ScoreCall \/ AvgCall \/ AvgIter \/ AvgReturn \/ Return

SpecAvg == InitAvg /\ [][NextAvg]_vars

---------------------------------------------------------------------------
(* Vocabulary of the properties *)

\* A call of fidelity_metric has ended, normally or with an error.
ScoreEnded == pc = "score_done"

\* A call of fidelity_metric has returned a value.
ScoreReturned == pc = "score_done" /\ score.status = "ok"

\* A call of compute_average_fidelity has ended, normally or with an error.
AvgEnded == pc = "avg_done"

SetOf(seq) == {seq[j] : j \in 1..Len(seq)}

\* Entry a of the mapping comes before entry b in the order "descending absolute
\* importance, equal ones in the mapping's own order".
Precedes(items, a, b) ==
    \/ Abs(items[a][2]) > Abs(items[b][2])
    \/ Abs(items[a][2]) = Abs(items[b][2]) /\ a < b

\* The place (1-based) of entry a in that order.
RankOf(items, a) == Cardinality({b \in 1..Len(items) : Precedes(items, b, a)}) + 1

\* The identifiers of the first k entries in that order, k >= 0.
TopK(items, k) ==
    {items[a][1] : a \in {b \in 1..Len(items) : RankOf(items, b) <= k}}

\* The vector x with the positions of the features in sel set to zero.
ZeroedAt(x, sel) ==
    [p \in 1..Len(x) |-> IF feature_names[p] \in sel THEN 0 ELSE x[p]]

---------------------------------------------------------------------------
(* C1 *)

\* C1: for k >= 0, the perturbed vector passed to the model equals the original
\* instance at every position except those of the (at most k) selected features,
\* where it holds the baseline value zero.
C1_PerturbedOnlyAtSelected ==
    (ScoreReturned /\ score.num_features >= 0) =>
        LET sel == SetOf(score.features_to_remove)
            passed == score.predict_calls[2]
        IN  /\ Len(score.predict_calls) = 2
            /\ Cardinality(sel) <= score.num_features
            /\ sel \subseteq SetOf(Keys(score.explanation))
            /\ Len(passed) = Len(score.instance)
            /\ \A p \in 1..Len(passed) :
                 passed[p] = IF feature_names[p] \in sel THEN 0
                             ELSE score.instance[p]

\* C1 witness: two features were selected and zeroed, the third was kept.
C1_Witness ==
    /\ ScoreReturned
    /\ score.num_features = 2
    /\ score.instance = <<2, 3, 5>>
    /\ score.predict_calls[2] = <<0, 3, 0>>

---------------------------------------------------------------------------
(* C2 *)

\* C2: the features selected are the first k entries of the mapping sorted by
\* descending absolute importance, entries of equal absolute importance in the
\* mapping's own order; so the selection is a function of the mapping and k.
C2_StableTopK ==
    (ScoreEnded /\ score.num_features >= 0) =>
        LET items == score.explanation
            taken == Min(score.num_features, Len(items))
        IN  /\ Len(score.features_to_remove) = taken
            /\ \A a \in 1..Len(items) :
                 RankOf(items, a) <= taken =>
                     score.features_to_remove[RankOf(items, a)] = items[a][1]

\* C2 witness: two entries of equal absolute importance and opposite sign compete
\* for the one place, and the one the mapping lists first was taken.
C2_Witness ==
    /\ ScoreEnded
    /\ score.num_features = 1
    /\ Len(score.explanation) = 3
    /\ score.explanation[1][2] = 0
    /\ score.explanation[2][2] = 0 - 1
    /\ score.explanation[3][2] = 1
    /\ score.features_to_remove = <<score.explanation[2][1]>>

---------------------------------------------------------------------------
(* C3 *)

\* C3: score returns the model's output on the original instance minus its output
\* on the copy with the top-k features zeroed; for x = [2, 3, 5],
\* f(x) = x[0] + 2*x[1], importance {f0: 2, f1: 6, f2: 0} and k = 1 that is 6; for
\* a linear model with importance w*x elementwise and k = len(x) it is f(x).
C3_OriginalMinusPerturbed ==
    (ScoreReturned /\ score.num_features >= 0) =>
        /\ score.fidelity =
              Predict(score.model, score.instance)
              - Predict(score.model,
                        ZeroedAt(score.instance,
                                 TopK(score.explanation, score.num_features)))
        /\ ( /\ score.instance = <<2, 3, 5>>
             /\ score.model = <<1, 2, 0>>
             /\ score.explanation = <<<<"f0", 2>>, <<"f1", 6>>, <<"f2", 0>>>>
             /\ score.num_features = 1 ) => score.fidelity = 6
        /\ ( /\ score.explanation = LinearImportance(score.model, score.instance)
             /\ score.num_features = Len(score.instance) )
               => score.fidelity = Predict(score.model, score.instance)

\* C3 witness: the scenario x = [2, 3, 5], k = 1 has returned 6.
C3_Witness ==
    /\ ScoreReturned
    /\ score.instance = <<2, 3, 5>>
    /\ score.model = <<1, 2, 0>>
    /\ score.explanation = <<<<"f0", 2>>, <<"f1", 6>>, <<"f2", 0>>>>
    /\ score.num_features = 1
    /\ score.predict_calls = <<<<2, 3, 5>>, <<2, 0, 5>>>>
    /\ score.fidelity = 6

---------------------------------------------------------------------------
(* C4 *)

\* C4: with k < 0 score fails: it returns no fidelity value and perturbs no
\* feature.
C4_NegativeKFails ==
    (ScoreEnded /\ score.num_features < 0) =>
        /\ score.status # "ok"
        /\ score.predict_calls = <<>>
        /\ score.features_to_remove = <<>>

---------------------------------------------------------------------------
(* C5 *)

---------------------------------------------------------------------------
(* C9 *)

\* C9: with k = 0, whatever the instance and the mapping, the vector passed to the
\* model as perturbed equals the original and score returns 0.
C9_ZeroKIsZero ==
    (ScoreEnded /\ score.num_features = 0) =>
        /\ score.status = "ok"
        /\ score.features_to_remove = <<>>
        /\ score.predict_calls = <<score.instance, score.instance>>
        /\ score.fidelity = 0

\* C9 witness: k = 0 on a mapping whose first-ranked identifier is unknown.
C9_Witness ==
    /\ ScoreReturned
    /\ score.num_features = 0
    /\ Len(score.explanation) = 2
    /\ score.explanation[1][1] = Nonexistent
    /\ score.explanation[1][2] = 1
    /\ score.explanation[2][2] = 0
    /\ score.fidelity = 0

---------------------------------------------------------------------------
(* C6 *)

\* C6: called with num_samples greater than the number of instances, averageScore
\* evaluates the instances there are and returns the mean of their scores, rather
\* than failing (stated for k >= 0 and where no score call fails).
C6_ClampsToAvailable ==
    ( /\ AvgEnded
      /\ avg.num_features >= 0
      /\ Len(avg.X) >= 1
      /\ avg.num_samples > Len(avg.X)
      /\ avg.status # "ValueError" ) =>
        /\ avg.status = "ok"
        /\ Len(avg.fidelities) = Len(avg.X)
        /\ avg.result = [nan |-> FALSE, num |-> Sum(avg.fidelities),
                         den |-> Len(avg.X)]

---------------------------------------------------------------------------
(* C7 *)

\* C7: with num_samples = 0 or an empty instance sequence averageScore fails; it
\* never returns a value (stated for k >= 0).
C7_EmptyInputFails ==
    ( /\ AvgEnded
      /\ avg.num_features >= 0
      /\ (avg.num_samples = 0 \/ Len(avg.X) = 0) ) => avg.status # "ok"

---------------------------------------------------------------------------
(* C8 *)

\* C8: no call, successful or failing, changes the caller's instance, mapping or
\* instance sequence, and a score call repeated on what the caller holds after
\* the call ends as the call did, with the same output.
C8_CallerDataUnchanged ==
    [][ /\ X' = X
        /\ instance' = instance
        /\ explanation' = explanation
        /\ pc' = "score_done" =>
             LET again == fidelity_metric(score'.model, <<instance'>>, 1,
                                          explanation', score'.num_features)
             IN  /\ again.status = score'.status
                 /\ again.fidelity = score'.fidelity
                 /\ again.predict_calls = score'.predict_calls ]_vars

\* C8 witness: an averageScore call over three instances has perturbed a copy of
\* each (every score is nonzero) and returned, and X is what it was.
C8_Witness ==
    /\ AvgEnded
    /\ avg.status = "ok"
    /\ Len(avg.X) = 3
    /\ avg.num_samples = 3
    /\ \A j \in 1..Len(avg.fidelities) : avg.fidelities[j] # 0
    /\ X = avg.X

---------------------------------------------------------------------------
(* C10 *)

\* The score of row j of X under the call's model, explainer and num_features.
RowScore(j) ==
    fidelity_metric(avg.model, <<avg.X[j]>>, 1,
                    dict(explain_instance(avg.explainer, avg.model, avg.X[j],
                                          explanation)),
                    avg.num_features)

---------------------------------------------------------------------------
(* C11 *)

\* The positions of the instance that hold a feature of sel.
PositionsOf(sel) == {p \in 1..Len(feature_names) : feature_names[p] \in sel}

\* C11 as claimed: when k exceeds the number of entries of the mapping, score
\* perturbs exactly the features the mapping names and returns normally.
C11_ExceedingKReturns ==
    (ScoreEnded /\ score.num_features > Len(score.explanation)) =>
        /\ score.status = "ok"
        /\ score.predict_calls[2]
              = ZeroedAt(score.instance, SetOf(Keys(score.explanation)))

\* C11 as amended: when k exceeds the number of entries of the mapping, score
\* selects all of its entries and no others; if every identifier of the mapping
\* is in the instance's feature set it zeroes exactly their positions and returns
\* normally, otherwise it fails (ValueError) without calling the model.  In every
\* call with k >= 0 that returns, the number of perturbed positions is at most
\* min(k, number of entries).
C11_ExceedingKTakesAll ==
    /\ (ScoreEnded /\ score.num_features > Len(score.explanation)) =>
          LET named == SetOf(Keys(score.explanation))
          IN  /\ Len(score.features_to_remove) = Len(score.explanation)
              /\ SetOf(score.features_to_remove) = named
              /\ IF named \subseteq SetOf(feature_names)
                 THEN /\ score.status = "ok"
                      /\ score.predict_calls[1] = score.instance
                      /\ score.predict_calls[2] = ZeroedAt(score.instance, named)
                 ELSE /\ score.status = "ValueError"
                      /\ score.predict_calls = <<>>
    /\ (ScoreReturned /\ score.num_features >= 0) =>
          LET bound == Min(score.num_features, Len(score.explanation))
              passed == score.predict_calls[2]
          IN  /\ Cardinality(PositionsOf(SetOf(score.features_to_remove))) <= bound
              /\ Cardinality({p \in 1..Len(passed) : passed[p] # score.instance[p]})
                    <= bound

\* C11 witness: k = 4 on a mapping of two known features: both were zeroed, the
\* third position was kept, and the call returned.
C11_Witness ==
    /\ ScoreReturned
    /\ score.num_features = 4
    /\ Len(score.explanation) = 2
    /\ score.instance = <<2, 3, 5>>
    /\ score.predict_calls[2] = <<0, 3, 0>>

====
